---- MODULE Spec2Model ----
(***************************************************************************)
(* Identity, authentication and authorization core of the loan management *)
(* backend: the credential store (UserProvider), the authentication       *)
(* adapter (bcrypt password check, HS256 session tokens) and the          *)
(* permission evaluator (SecurityPermissionProvider / PermissionAdapter). *)
(* Times are POSIX seconds; exceptions are modelled as outcome records.   *)
(***************************************************************************)
EXTENDS Integers, Sequences, FiniteSets, TLC

(***************************************************************************)
(* Bounds of the exploration.                                              *)
(***************************************************************************)
MaxUserId == 2          \* user ids (uuid4 values) are drawn from 1..MaxUserId
MaxTicks == 4           \* the clock advances at most this many times
MaxLinkRows == 3        \* the RolePermission table holds at most this many rows
MaxRoleId == 2          \* role ids are drawn from 1..MaxRoleId
MaxPermId == 2
MaxTenantId == 2        \* tenant ids in use
MaxManagerId == 2       \* TenantContextManager objects in use
MaxDepth == 3           \* with-blocks open at the same time
MaxRateRows == 2        \* rows of the ExchangeRate table          \* permission ids are drawn from 1..MaxPermId

StartNow == 100000      \* POSIX time at which the exploration starts
TickSeconds == 3600     \* the clock advances in steps of one hour
SleepSeconds == 82800   \* an idle period of 23 hours
SecondsPerHour == 3600  \* timedelta(hours=1) in seconds
DefaultExpiryHours == 24

Usernames == {"alice", "bob"}
Passwords == {"pw-one", "pw-two"}
ExpiryHours == {1, 3}                \* configured token_expiry_hours values
TzOffsets == {-1, 0, 2}              \* local time minus UTC, in hours
SecretKey == "server-secret"         \* the adapter's secret_key
OtherKey == "other-secret"           \* a key the adapter does not hold
PermCodes == {"ledger.view", "ledger.edit", "loan.approve"}

UserIds == 1..MaxUserId
RoleIds == 1..MaxRoleId
PermIds == 1..MaxPermId
None == 0                            \* Python None / SQL NULL for id columns

VARIABLES
    users,               \* credential store: set of User rows
    now,                 \* POSIX time (UTC seconds)
    ticks,               \* number of clock steps taken
    tz,                  \* local timezone offset of the process, hours
    token_expiry_hours,  \* AuthenticationAdapter.token_expiry_hours
    tok,                 \* the bearer token held by the client
    secUsers,            \* SecurityUser table: id -> role_id (or None)
    permissions,         \* SecurityPermission table: id -> code
    rolePerms,           \* RolePermission rows: <<role_id, permission_id>> -> count
    roles,               \* SecurityRole table: id -> [name, description, permissions]
    tenants,             \* Company table: set of tenant rows
    pending,             \* per client: the tenant call between its check and its write
    current_tenant_id,   \* the ContextVar _current_tenant_id
    managers,            \* TenantContextManager objects: [tenant_id, previous_tenant_id]
    blocks,              \* the open with-blocks, innermost last
    userRoles,           \* UserRole rows: <<user_id, role_id>> -> count
    assigning,           \* per client: the assign_role call between its check and its insert
    rates,               \* ExchangeRate table: set of rows
    last                 \* the last call and its outcome

vars == <<users, now, ticks, tz, token_expiry_hours, tok,
          secUsers, permissions, rolePerms, roles, tenants, pending,
          current_tenant_id, managers, blocks, userRoles, assigning, rates, last>>
authVars == <<users, now, ticks, tz, token_expiry_hours, tok>>
permVars == <<secUsers, permissions, rolePerms, roles>>
tenantVars == <<tenants, pending>>
ctxVars == <<current_tenant_id, managers, blocks>>
assignVars == <<userRoles, assigning>>
fxVars == <<rates>>

(***************************************************************************)
(* Outcomes: a returned value or a raised exception.                      *)
(***************************************************************************)
Ok(v) == [kind |-> "ok", val |-> <<v>>, msg |-> <<>>]
Raise(exc, m) == [kind |-> exc, val |-> <<>>, msg |-> m]
IsOk(o) == o.kind = "ok"
Val(o) == o.val[1]

\* backend/core/error.py
NotFoundError(entity, identifier) ==
    Raise("NotFoundError", <<entity, " with identifier '", identifier, "' not found">>)
AuthenticationError(m) == Raise("AuthenticationError", m)
AuthorizationError(m) == Raise("AuthorizationError", m)

(***************************************************************************)
(* UUIDs and their string form.                                            *)
(***************************************************************************)
UUIDStr(i) == "uuid-" \o ToString(i)                   \* str(uuid)
IdStrings == {UUIDStr(i) : i \in UserIds} \cup {"", "not-a-uuid"}
\* UUID(s): parses the string form, ValueError on anything else
UUIDParse(s) ==
    IF \E i \in UserIds : UUIDStr(i) = s
    THEN Ok(CHOOSE i \in UserIds : UUIDStr(i) = s)
    ELSE Raise("ValueError", <<"badly formed hexadecimal UUID string">>)

(***************************************************************************)
(* bcrypt.                                                                 *)
(***************************************************************************)
\* a well-formed bcrypt hash of password p
BcryptHash(p) == "$2b$12$" \o p
CorruptHash == "corrupt"
\* the values a hashed_password column holds: seeded bcrypt hashes, the
\* plain password written by create_user, and a damaged value
StoredHashes == {BcryptHash(p) : p \in Passwords} \cup Passwords \cup {CorruptHash}
\* bcrypt.checkpw: ValueError("Invalid salt") on a malformed hash
checkpw(password, password_hash) ==
    IF \E p \in Passwords : password_hash = BcryptHash(p)
    THEN Ok(password_hash = BcryptHash(password))
    ELSE Raise("ValueError", <<"Invalid salt">>)

_verify_password_Propagates(password, password_hash) ==
    checkpw(password, password_hash)

\* AuthenticationAdapter._verify_password: any exception becomes False
_verify_password(password, password_hash) ==
    LET r == checkpw(password, password_hash)
    IN  IF IsOk(r) THEN r ELSE Ok(FALSE)

(***************************************************************************)
(* HS256 tokens (PyJWT).                                                   *)
(***************************************************************************)
HS256(key, payload) == <<"hmac-sha256", key, payload>>
CorruptToken == [kind |-> "garbage"]
\* jwt.encode
jwt_encode(payload, key) ==
    [kind |-> "jws", alg |-> "HS256", payload |-> payload, sig |-> HS256(key, payload)]

\* behaviours of the installed PyJWT: whether exp = now counts as expired
\* and whether an iat in the future is rejected
JwtBuilds == [expInclusive : BOOLEAN, iatChecked : BOOLEAN]

InvalidTokenErrors ==
    {"DecodeError", "InvalidAlgorithmError", "InvalidSignatureError",
     "ImmatureSignatureError", "ExpiredSignatureError"}

jwt_decode_NoExpiry(token, key, t, build) ==
    IF token.kind # "jws"
    THEN Raise("DecodeError", <<"Not enough segments">>)
    ELSE IF token.alg # "HS256"
    THEN Raise("InvalidAlgorithmError", <<"The specified alg value is not allowed">>)
    ELSE IF token.sig # HS256(key, token.payload)
    THEN Raise("InvalidSignatureError", <<"Signature verification failed">>)
    ELSE IF build.iatChecked /\ token.payload.iat > t
    THEN Raise("ImmatureSignatureError", <<"The token is not yet valid (iat)">>)
    ELSE Ok(token.payload)

\* jwt.decode(token, key, algorithms=["HS256"]) at time t
jwt_decode(token, key, t, build) ==
    IF token.kind # "jws"
    THEN Raise("DecodeError", <<"Not enough segments">>)
    ELSE IF token.alg # "HS256"
    THEN Raise("InvalidAlgorithmError", <<"The specified alg value is not allowed">>)
    ELSE IF token.sig # HS256(key, token.payload)
    THEN Raise("InvalidSignatureError", <<"Signature verification failed">>)
    ELSE IF build.iatChecked /\ token.payload.iat > t
    THEN Raise("ImmatureSignatureError", <<"The token is not yet valid (iat)">>)
    ELSE IF (IF build.expInclusive THEN token.payload.exp <= t ELSE token.payload.exp < t)
    THEN Raise("ExpiredSignatureError", <<"Signature has expired">>)
    ELSE Ok(token.payload)

verify_token_NoCatch(token, key, t, build) ==
    LET r == jwt_decode(token, key, t, build)
    IN  IF r.kind = "ExpiredSignatureError"
        THEN AuthenticationError(<<"Token has expired">>)
        ELSE r

\* AuthenticationAdapter.verify_token
verify_token(token, key, t, build) ==
    LET r == jwt_decode(token, key, t, build)
    IN  IF IsOk(r) THEN r
        ELSE IF r.kind = "ExpiredSignatureError"
        THEN AuthenticationError(<<"Token has expired">>)
        ELSE IF r.kind \in InvalidTokenErrors
        THEN AuthenticationError(<<"Invalid token: ">> \o r.msg)
        ELSE r

\* datetime.utcnow().timestamp(): the naive UTC wall time read as local time
naive_utc_timestamp(t, offsetHours) == t - offsetHours * SecondsPerHour

_generate_token_Minutes(user_id, username, key, expiryHours, t, offsetHours) ==
    LET iat == naive_utc_timestamp(t, offsetHours)
        exp == naive_utc_timestamp(t + expiryHours * 60, offsetHours)
    IN  jwt_encode([user_id |-> user_id, username |-> username,
                    iat |-> iat, exp |-> exp], key)

\* AuthenticationAdapter._generate_token
_generate_token(user_id, username, key, expiryHours, t, offsetHours) ==
    LET iat == naive_utc_timestamp(t, offsetHours)
        exp == naive_utc_timestamp(t + expiryHours * SecondsPerHour, offsetHours)
    IN  jwt_encode([user_id |-> user_id, username |-> username,
                    iat |-> iat, exp |-> exp], key)

(***************************************************************************)
(* Credential store (UserProvider).                                        *)
(***************************************************************************)
NoFullName == ""                     \* full_name NULL
NoLogin == ""                        \* last_login NULL
FullNames == {"Alice Adams"}
UserIdStrings == {UUIDStr(i) : i \in UserIds}
UserRows ==
    [id : UserIds, username : Usernames, hashed_password : StoredHashes,
     full_name : {NoFullName} \cup FullNames, last_login : {NoLogin}]

\* the unique constraints of the User table: id (primary key) and username
WellFormedUsers(S) ==
    \A a, b \in S : (a.id = b.id \/ a.username = b.username) => a = b

\* UserProvider.get_user_by_username
get_user_by_username(S, username) ==
    IF \E r \in S : r.username = username
    THEN Ok(CHOOSE r \in S : r.username = username)
    ELSE NotFoundError("User", username)

\* UserProvider.get_user_by_id
get_user_by_id(S, user_id) ==
    IF \E r \in S : UUIDStr(r.id) = user_id
    THEN Ok(CHOOSE r \in S : UUIDStr(r.id) = user_id)
    ELSE NotFoundError("User", user_id)

\* AuthenticationAdapter.authenticate
authenticate(S, username, password, key, expiryHours, t, offsetHours) ==
    LET u == get_user_by_username(S, username)
    IN  IF ~IsOk(u) THEN u          \* the provider raised; `if not user` is never taken
        ELSE LET v == _verify_password(password, Val(u).hashed_password)
             IN  IF ~IsOk(v) THEN v
                 ELSE IF ~Val(v)
                 THEN AuthenticationError(<<"Invalid username or password">>)
                 ELSE Ok(_generate_token(UUIDStr(Val(u).id), Val(u).username,
                                         key, expiryHours, t, offsetHours))

authenticate_session_Stamping(S, username, password, key, expiryHours, t, offsetHours) ==
    LET out == authenticate(S, username, password, key, expiryHours, t, offsetHours)
    IN  [store |-> IF IsOk(out)
                   THEN {IF r.username = username
                         THEN [r EXCEPT !.last_login = ToString(t)] ELSE r : r \in S}
                   ELSE S,
         out |-> out]

\* AuthenticationAdapter.authenticate with the rows its session holds when it
\* returns: it issues one SELECT and never adds, deletes or commits
authenticate_session(S, username, password, key, expiryHours, t, offsetHours) ==
    [store |-> S,
     out |-> authenticate(S, username, password, key, expiryHours, t, offsetHours)]

\* UserRead.model_validate(user): UserRead declares `class Config: orm_mode`,
\* which pydantic's model_validate does not read as from_attributes, so a User
\* row object is refused
UserRead_model_validate(user) ==
    Raise("PydanticValidationError",
          <<"Input should be a valid dictionary or instance of UserRead">>)

\* UserManagementAdapter.get_user_by_id
adapter_get_user_by_id(S, user_id) ==
    LET u == get_user_by_id(S, user_id)
    IN  IF ~IsOk(u) THEN u ELSE UserRead_model_validate(Val(u))

\* UserManagementAdapter.get_user_by_username
adapter_get_user_by_username(S, username) ==
    LET u == get_user_by_username(S, username)
    IN  IF ~IsOk(u) THEN u ELSE UserRead_model_validate(Val(u))

\* UserUpdate: each field is either unset or carries a value
Unset == "<unset>"
UserUpdates == [password : {Unset, "pw-three"}, full_name : {Unset} \cup FullNames]

\* UserProvider.update_user: setattr for every field that is set, in the
\* order the schema declares them, then commit. User has no attribute
\* `password`, so that setattr raises before anything is committed
provider_update_user(S, user, update_data) ==
    IF update_data.password # Unset
    THEN [store |-> S,
          out |-> Raise("ValueError", <<"\"User\" object has no field \"password\"">>)]
    ELSE LET updated == IF update_data.full_name # Unset
                        THEN [user EXCEPT !.full_name = update_data.full_name]
                        ELSE user
         IN  [store |-> (S \ {user}) \cup {updated}, out |-> Ok(updated)]

update_user_Upsert(S, user_id, update_data) ==
    LET u == get_user_by_id(S, user_id)
    IN  IF ~IsOk(u) THEN [store |-> S, out |-> Ok(None)]
        ELSE LET w == provider_update_user(S, Val(u), update_data)
             IN  IF ~IsOk(w.out) THEN w
                 ELSE [store |-> w.store, out |-> UserRead_model_validate(Val(w.out))]

\* UserManagementAdapter.update_user
update_user(S, user_id, update_data) ==
    LET u == get_user_by_id(S, user_id)
    IN  IF ~IsOk(u) THEN [store |-> S, out |-> u]   \* the provider raised
        ELSE LET w == provider_update_user(S, Val(u), update_data)
             IN  IF ~IsOk(w.out) THEN w
                 ELSE [store |-> w.store, out |-> UserRead_model_validate(Val(w.out))]

\* UserManagementAdapter.create_user over UserProvider.create_user: the row
\* stores the submitted password as hashed_password; a duplicate username is
\* refused by the unique constraint at commit
create_user(S, newId, username, password) ==
    IF \E r \in S : r.username = username
    THEN [store |-> S, out |-> Raise("IntegrityError", <<"UNIQUE constraint failed: user.username">>)]
    ELSE [store |-> S \cup {[id |-> newId, username |-> username, hashed_password |-> password,
       full_name |-> NoFullName, last_login |-> NoLogin]},
          out |-> UserRead_model_validate(newId)]

delete_user_Soft(S, user_id) ==
    LET u == get_user_by_id(S, user_id)
    IN  IF ~IsOk(u) THEN [store |-> S, out |-> u]
        ELSE [store |-> S, out |-> Ok(None)]

\* UserManagementAdapter.delete_user over UserProvider.delete_user
delete_user(S, user_id) ==
    LET u == get_user_by_id(S, user_id)
    IN  IF ~IsOk(u) THEN [store |-> S, out |-> u]
        ELSE [store |-> S \ {Val(u)}, out |-> Ok(None)]

(***************************************************************************)
(* Permission evaluator.                                                   *)
(***************************************************************************)
\* SecurityPermissionProvider.get_permission_by_code
get_permission_by_code(P, code) ==
    IF \E p \in DOMAIN P : P[p] = code
    THEN Ok(CHOOSE p \in DOMAIN P : P[p] = code)
    ELSE NotFoundError("Permission", code)

user_has_permission_AnyRole(SU, P, RP, uid, code) ==
    LET perm == get_permission_by_code(P, code)
    IN  IF ~IsOk(perm) THEN Ok(FALSE)
        ELSE Ok(\E r \in RoleIds : RP[<<r, Val(perm)>>] > 0)

user_has_permission_NoCatch(SU, P, RP, uid, code) ==
    LET role_id == IF uid \in DOMAIN SU THEN SU[uid] ELSE None
    IN  IF role_id = None THEN Ok(FALSE)
        ELSE LET perm == get_permission_by_code(P, code)
             IN  IF ~IsOk(perm) THEN perm
                 ELSE Ok(RP[<<role_id, Val(perm)>>] > 0)

user_has_permission_AnyPermission(SU, P, RP, uid, code) ==
    LET role_id == IF uid \in DOMAIN SU THEN SU[uid] ELSE None
    IN  IF role_id = None THEN Ok(FALSE)
        ELSE LET perm == get_permission_by_code(P, code)
             IN  IF perm.kind = "NotFoundError" THEN Ok(FALSE)
                 ELSE Ok(\E p \in PermIds : RP[<<role_id, p>>] > 0)

user_has_permission_OneOrNone(SU, P, RP, uid, code) ==
    LET role_id == IF uid \in DOMAIN SU THEN SU[uid] ELSE None
    IN  IF role_id = None THEN Ok(FALSE)
        ELSE LET perm == get_permission_by_code(P, code)
             IN  IF perm.kind = "NotFoundError" THEN Ok(FALSE)
                 ELSE IF RP[<<role_id, Val(perm)>>] > 1
                 THEN Raise("MultipleResultsFound", <<"Multiple rows were found">>)
                 ELSE Ok(RP[<<role_id, Val(perm)>>] > 0)

\* SecurityPermissionProvider.user_has_permission
user_has_permission(SU, P, RP, uid, code) ==
    LET role_id == IF uid \in DOMAIN SU THEN SU[uid] ELSE None   \* .first()
    IN  IF role_id = None THEN Ok(FALSE)
        ELSE LET perm == get_permission_by_code(P, code)
             IN  IF perm.kind = "NotFoundError" THEN Ok(FALSE)
                 ELSE Ok(RP[<<role_id, Val(perm)>>] > 0)

\* PermissionAdapter.has_permission
has_permission(SU, P, RP, user_id, permission) ==
    LET uid == UUIDParse(user_id)
    IN  IF ~IsOk(uid) THEN uid
        ELSE user_has_permission(SU, P, RP, Val(uid), permission)

assert_permission_Inverted(SU, P, RP, user_id, permission) ==
    LET h == has_permission(SU, P, RP, user_id, permission)
    IN  IF ~IsOk(h) THEN h
        ELSE IF Val(h)
        THEN AuthorizationError(<<"User '", user_id, "' lacks required permission '",
                                  permission, "'">>)
        ELSE Ok(None)

\* PermissionAdapter.assert_permission
assert_permission(SU, P, RP, user_id, permission) ==
    LET h == has_permission(SU, P, RP, user_id, permission)
    IN  IF ~IsOk(h) THEN h
        ELSE IF ~Val(h)
        THEN AuthorizationError(<<"User '", user_id, "' lacks required permission '",
                                  permission, "'">>)
        ELSE Ok(None)

(***************************************************************************)
(* Roles (SecurityRoleProvider, RoleAdapter).                              *)
(***************************************************************************)
RoleNames == {"auditor", "admin", "teller"}
RoleIdStrings == {UUIDStr(i) : i \in RoleIds} \cup {"", "not-a-uuid"}
\* UUID(role_id)
UUIDParseRole(s) ==
    IF \E i \in RoleIds : UUIDStr(i) = s
    THEN Ok(CHOOSE i \in RoleIds : UUIDStr(i) = s)
    ELSE Raise("ValueError", <<"badly formed hexadecimal UUID string">>)

\* a SecurityRole object as the session returns it
RoleObject(R, rid) ==
    [id |-> rid, name |-> R[rid].name, description |-> R[rid].description,
     permissions |-> R[rid].permissions]

\* SecurityRoleProvider.get_by_id: a sequence of at most one role (Optional)
get_by_id(R, role_id) ==
    IF role_id \in DOMAIN R THEN Ok(<<RoleObject(R, role_id)>>) ELSE Ok(<<>>)

\* SecurityRoleProvider.get_by_name
get_by_name(R, name) ==
    IF \E r \in DOMAIN R : R[r].name = name
    THEN Ok(<<RoleObject(R, CHOOSE r \in DOMAIN R : R[r].name = name)>>)
    ELSE Ok(<<>>)

\* SecurityRoleProvider.list_all
list_all(R) == {RoleObject(R, r) : r \in DOMAIN R}

resolve_permissions_Consuming(R, role_id) ==
    LET role == get_by_id(R, role_id)
    IN  IF Val(role) = <<>>
        THEN [store |-> R,
              out |-> Raise("ValueError", <<"SecurityRole not found: ", UUIDStr(role_id)>>)]
        ELSE [store |-> [R EXCEPT ![role_id].permissions = <<>>],
              out |-> Ok(Val(role)[1].permissions)]

\* SecurityRoleProvider.resolve_permissions: a copy of the role's code list
resolve_permissions(R, role_id) ==
    LET role == get_by_id(R, role_id)
    IN  IF Val(role) = <<>>
        THEN [store |-> R,
              out |-> Raise("ValueError", <<"SecurityRole not found: ", UUIDStr(role_id)>>)]
        ELSE [store |-> R, out |-> Ok(Val(role)[1].permissions)]

\* RoleRead.model_validate(role): RoleRead.id is declared str and the role
\* row carries a UUID, which pydantic does not accept for a str field
RoleRead_model_validate(role) ==
    Raise("PydanticValidationError", <<"id", "Input should be a valid string">>)

\* RoleAdapter.get_role_by_id
get_role_by_id(R, role_id) ==
    LET rid == UUIDParseRole(role_id)
    IN  IF ~IsOk(rid) THEN rid
        ELSE LET role == get_by_id(R, Val(rid))
             IN  IF Val(role) = <<>> THEN NotFoundError("Role", role_id)
                 ELSE RoleRead_model_validate(Val(role)[1])

\* RoleAdapter.get_role_by_name
get_role_by_name(R, name) ==
    LET role == get_by_name(R, name)
    IN  IF Val(role) = <<>> THEN NotFoundError("Role", name)
        ELSE RoleRead_model_validate(Val(role)[1])

\* the roles RoleAdapter.list_roles keeps for a permission filter
FilteredRoles(R, permission_filter) ==
    IF permission_filter = "" THEN list_all(R)
    ELSE {role \in list_all(R) :
             \E i \in DOMAIN role.permissions : role.permissions[i] = permission_filter}

\* RoleAdapter.list_roles
list_roles(R, permission_filter) ==
    LET kept == FilteredRoles(R, permission_filter)
    IN  IF kept = {} THEN Ok({})
        ELSE RoleRead_model_validate(CHOOSE role \in kept : TRUE)

(***************************************************************************)
(* Tenants (TenantProvider, TenantService).                                *)
(***************************************************************************)
TenantIds == 1 .. MaxTenantId
TenantCodes == {"ACME", "GLOBEX"}
TenantNames == {"Acme Ltd", "Acme Holdings"}
\* TenantUpdate: each field is either unset or carries a value
TenantUpdates == [code : {Unset} \cup TenantCodes, name : {Unset} \cup TenantNames]

\* backend.core.error.ValidationError
ValidationError(m) == Raise("ValidationError", m)

check_code_exists_IgnoringExclude(T, code, exclude_id) ==
    \E r \in T : r.code = code

\* TenantProvider.check_code_exists
check_code_exists(T, code, exclude_id) ==
    \E r \in T : r.code = code /\ (exclude_id = None \/ r.id # exclude_id)

\* TenantProvider.get_tenant_by_id: a sequence of at most one row (Optional)
get_tenant_by_id(T, tenant_id) ==
    IF \E r \in T : r.id = tenant_id
    THEN <<CHOOSE r \in T : r.id = tenant_id>>
    ELSE <<>>

\* the unique constraint on company.code, checked at commit
CodeConstraintHolds(T) == \A a, b \in T : a.code = b.code => a = b
IntegrityError(m) == Raise("IntegrityError", m)

\* TenantProvider.create_tenant: Company(**tenant_data), add, commit
provider_create_tenant(T, newId, tenant_data, t) ==
    LET tenant == [id |-> newId, code |-> tenant_data.code, name |-> tenant_data.name,
                   updated_at |-> t]
    IN  IF CodeConstraintHolds(T \cup {tenant})
        THEN [store |-> T \cup {tenant}, out |-> Ok(tenant)]
        ELSE [store |-> T, out |-> IntegrityError(<<"UNIQUE constraint failed: company.code">>)]

\* TenantProvider.update_tenant: setattr for every key of the dict, commit
provider_update_tenant(T, tenant, update_dict) ==
    LET updated == [f \in DOMAIN tenant |->
                        IF f \in DOMAIN update_dict THEN update_dict[f] ELSE tenant[f]]
        T2 == (T \ {tenant}) \cup {updated}
    IN  IF CodeConstraintHolds(T2)
        THEN [store |-> T2, out |-> Ok(updated)]
        ELSE [store |-> T, out |-> IntegrityError(<<"UNIQUE constraint failed: company.code">>)]

\* TenantRead(**tenant.model_dump()): the row's fields under the read schema
TenantRead(tenant) ==
    [id |-> UUIDStr(tenant.id), code |-> tenant.code, name |-> tenant.name,
     updated_at |-> tenant.updated_at]

\* TenantService.create_tenant
create_tenant(T, newId, tenant_data, t) ==
    IF check_code_exists(T, tenant_data.code, None)
    THEN [store |-> T,
          out |-> ValidationError(<<"Tenant with code '", tenant_data.code, "' already exists">>)]
    ELSE LET c == provider_create_tenant(T, newId, tenant_data, t)
         IN  IF ~IsOk(c.out) THEN c
             ELSE [store |-> c.store, out |-> Ok(TenantRead(Val(c.out)))]

exclude_unset_Everything(update_data) == update_data

\* update_data.model_dump(exclude_unset=True)
exclude_unset(update_data) ==
    [f \in {g \in DOMAIN update_data : update_data[g] # Unset} |-> update_data[f]]

\* TenantService.update_tenant: the result is a sequence of at most one
\* TenantRead (Optional)
update_tenant(T, tenant_id, update_data, t) ==
    LET tenant == get_tenant_by_id(T, tenant_id)
    IN  IF tenant = <<>> THEN [store |-> T, out |-> Ok(<<>>)]
        ELSE LET update_dict == exclude_unset(update_data)
             IN  IF /\ "code" \in DOMAIN update_dict
                    /\ check_code_exists(T, update_dict.code, tenant_id)
                 THEN [store |-> T,
                       out |-> ValidationError(<<"Tenant with code '", update_dict.code,
                                                 "' already exists">>)]
                 ELSE LET stamped == [f \in DOMAIN update_dict \cup {"updated_at"} |->
                                          IF f = "updated_at" THEN t ELSE update_dict[f]]
                          w == provider_update_tenant(T, tenant[1], stamped)
                      IN  IF ~IsOk(w.out) THEN w
                          ELSE [store |-> w.store, out |-> Ok(<<TenantRead(Val(w.out))>>)]

(***************************************************************************)
(* FX revaluation (CurrencyProvider, FXRevaluationAdapter).                *)
(* Amounts are counted in cents and rates in thousandths, so a product is  *)
(* counted in units of 10^-5.                                              *)
(***************************************************************************)
FxBalances == {-250, 0, 1, 50, 333}
FxRates == {-1000, 0, 1000, 1005, 1250, 1500}
ProductUnitsPerCent == 1000

\* round(x, 2): the nearest cent; when x lies midway between two cents the
\* binary value of the float product decides, so either neighbour can result
round2(x) ==
    LET q == x \div ProductUnitsPerCent
        r == x % ProductUnitsPerCent
    IN  IF 2 * r < ProductUnitsPerCent THEN {q}
        ELSE IF 2 * r > ProductUnitsPerCent THEN {q + 1}
        ELSE {q, q + 1}

CalculationError(m) == Raise("CalculationError", m)

revalue_balance_BothRates(balance, old_rate, new_rate) ==
    IF old_rate <= 0 /\ new_rate <= 0
    THEN {CalculationError(<<"FX rates must be greater than zero.">>)}
    ELSE {Ok(v) : v \in round2(balance * (new_rate - old_rate))}

\* CurrencyProvider.revalue_balance: the outcomes the call can have
revalue_balance(balance, old_rate, new_rate) ==
    IF old_rate <= 0 \/ new_rate <= 0
    THEN {CalculationError(<<"FX rates must be greater than zero.">>)}
    ELSE {Ok(v) : v \in round2(balance * (new_rate - old_rate))}

\* FXRevaluationAdapter.revalue_balance
adapter_revalue_balance(balance, old_rate, new_rate) ==
    revalue_balance(balance, old_rate, new_rate)

(***************************************************************************)
(* User-role links (BaseProvider, the UserProvider of user_provider.py).   *)
(* Every helper of BaseProvider opens a session of its own.                *)
(***************************************************************************)
\* BaseProvider.exists(UserRole, user_id == u, role_id == r)
exists(UR, user_id, role_id) == UR[<<user_id, role_id>>] > 0

\* BaseProvider.create(UserRole(user_id, role_id)): the insert commits unless
\* the database enforces the foreign keys and a referenced row is missing
create(UR, user_id, role_id, referenced) ==
    IF referenced
    THEN [store |-> [UR EXCEPT ![<<user_id, role_id>>] = @ + 1],
          out |-> Ok(<<[user_id |-> user_id, role_id |-> role_id]>>)]
    ELSE [store |-> UR, out |-> IntegrityError(<<"FOREIGN KEY constraint failed">>)]

assign_role_Unchecked(UR, user_id, role_id, referenced) ==
    create(UR, user_id, role_id, referenced)

\* UserProvider.assign_role run without interruption; None is the empty
\* sequence, the created relation a sequence of one
assign_role(UR, user_id, role_id, referenced) ==
    IF exists(UR, user_id, role_id)
    THEN [store |-> UR, out |-> Ok(<<>>)]
    ELSE create(UR, user_id, role_id, referenced)

\* UserProvider.remove_role run without interruption: filter, then delete of
\* the first relation found
remove_role(UR, user_id, role_id) ==
    IF UR[<<user_id, role_id>>] = 0
    THEN [store |-> UR, out |-> Ok(FALSE)]
    ELSE [store |-> [UR EXCEPT ![<<user_id, role_id>>] = @ - 1], out |-> Ok(TRUE)]

(***************************************************************************)
(* Exchange rates (CurrencyProvider.get_rate, ExchangeRateAdapter).        *)
(* Rates are counted in thousandths and amounts in cents.                  *)
(***************************************************************************)
IsoCodes == {"USD", "EUR"}                          \* codes as the tables store them
CurrencyArgs == {"usd", "Usd", "USD", "eur", "EUR"} \* codes as callers spell them
RateValues == {1100, 1250}
ValidFroms == {10, 20}
Amounts == {0, 250}
RateRows == [base_currency : IsoCodes, quote_currency : IsoCodes,
             rate : RateValues, valid_from : ValidFroms]

\* str.upper()
upper(code) ==
    CASE code \in {"usd", "Usd", "USD"} -> "USD"
      [] code \in {"eur", "EUR"} -> "EUR"
      [] OTHER -> code

get_rate_Oldest(X, base_currency, quote_currency) ==
    LET found == {r \in X : /\ r.base_currency = upper(base_currency)
                            /\ r.quote_currency = upper(quote_currency)}
        first == {r \in found : \A q \in found : q.valid_from >= r.valid_from}
    IN  IF found = {}
        THEN {NotFoundError("ExchangeRate", base_currency \o "->" \o quote_currency)}
        ELSE {Ok(r.rate) : r \in first}

\* CurrencyProvider.get_rate: the outcomes the call can have. The rows of
\* the pair are ordered by valid_from descending and the first is taken;
\* among rows with the same valid_from the database decides
get_rate(X, base_currency, quote_currency) ==
    LET found == {r \in X : /\ r.base_currency = upper(base_currency)
                            /\ r.quote_currency = upper(quote_currency)}
        first == {r \in found : \A q \in found : q.valid_from <= r.valid_from}
    IN  IF found = {}
        THEN {NotFoundError("ExchangeRate", base_currency \o "->" \o quote_currency)}
        ELSE {Ok(r.rate) : r \in first}

\* ExchangeRateAdapter.get_rate
adapter_get_rate(X, from_currency, to_currency) ==
    get_rate(X, from_currency, to_currency)

\* ExchangeRateAdapter.convert
convert(X, amount, from_currency, to_currency) ==
    {IF IsOk(rate) THEN Ok(amount * Val(rate)) ELSE rate :
        rate \in adapter_get_rate(X, from_currency, to_currency)}

(***************************************************************************)
(* State machine.                                                          *)
(***************************************************************************)
\* usernames a caller may pass to authenticate, the empty string included
UsernameInputs == Usernames \cup {""}

\* the clients that may have a call in progress at the same time
Procs == {1, 2}
Idle == [op |-> "idle"]
ManagerIds == 1 .. MaxManagerId
\* no tenant call, with-block, role assignment or exchange rate is around
Quiescent ==
    /\ pending = [p \in Procs |-> Idle]
    /\ current_tenant_id = None
    /\ managers = [m \in {} |-> None]
    /\ blocks = <<>>
    /\ userRoles = [k \in UserIds \X RoleIds |-> 0]
    /\ assigning = [p \in Procs |-> Idle]
    /\ rates = {}

NoToken == [kind |-> "none"]
Call(op, a1, a2, out) == [op |-> op, a1 |-> a1, a2 |-> a2, out |-> out]
NoCall == Call("init", "", "", Ok(None))

\* rows the database holds when the service starts
SeedUsers ==
    { {},
      {[id |-> 1, username |-> "alice", hashed_password |-> BcryptHash("pw-one"),
       full_name |-> NoFullName, last_login |-> NoLogin]},
      {[id |-> 1, username |-> "alice", hashed_password |-> CorruptHash,
       full_name |-> NoFullName, last_login |-> NoLogin]} }

NoLinks == [k \in RoleIds \X PermIds |-> 0]
RECURSIVE SumOver(_, _)
SumOver(RP, K) ==
    IF K = {} THEN 0
    ELSE LET k == CHOOSE x \in K : TRUE IN RP[k] + SumOver(RP, K \ {k})
\* number of rows of the RolePermission table
LinkRows(RP) == SumOver(RP, DOMAIN RP)
SeedPermissions ==
    { [p \in {1} |-> "ledger.view"],
      [p \in {1, 2} |-> IF p = 1 THEN "ledger.view" ELSE "ledger.edit"] }
\* the SecurityRole rows the database is seeded with; permissions is the
\* JSON list of permission codes kept on the role row itself
NoRoles == [r \in {} |-> None]
SeedRoles ==
    { [r \in {1, 2} |->
          IF r = 1
          THEN [name |-> "auditor", description |-> "read-only", permissions |-> <<"ledger.view">>]
          ELSE [name |-> "admin", description |-> "full access",
                permissions |-> <<"ledger.view", "ledger.edit">>]],
      [r \in {1} |-> [name |-> "auditor", description |-> "read-only", permissions |-> <<>>]] }
SeedSecUsers == UNION {[D -> {None} \cup RoleIds] : D \in {{1}, {1, 2}}}

InitAuth ==
    /\ users \in SeedUsers
    /\ now = StartNow
    /\ ticks = 0
    /\ tz \in TzOffsets
    /\ token_expiry_hours \in ExpiryHours
    /\ tok = NoToken
    /\ secUsers = [u \in {} |-> None]
    /\ permissions = [p \in {} |-> ""]
    /\ rolePerms = NoLinks
    /\ roles = NoRoles
    /\ tenants = {}
    /\ Quiescent
    /\ last = NoCall

InitPerm ==
    /\ users = {}
    /\ now = StartNow
    /\ ticks = 0
    /\ tz = 0
    /\ token_expiry_hours = DefaultExpiryHours
    /\ tok = NoToken
    /\ secUsers \in SeedSecUsers
    /\ permissions \in SeedPermissions
    /\ rolePerms = NoLinks
    /\ roles \in SeedRoles
    /\ tenants = {}
    /\ Quiescent
    /\ last = NoCall

CreateUser(username, password) ==
    /\ \E newId \in UserIds \ {r.id : r \in users} :
          LET c == create_user(users, newId, username, password)
          IN  /\ users' = c.store
              /\ last' = Call("create_user", username, password, c.out)
    /\ UNCHANGED <<now, ticks, tz, token_expiry_hours, tok, permVars, tenantVars, ctxVars, assignVars, fxVars>>

DeleteUser(user_id) ==
    /\ LET d == delete_user(users, user_id)
       IN  /\ users' = d.store
           /\ last' = Call("delete_user", user_id, "", d.out)
    /\ UNCHANGED <<now, ticks, tz, token_expiry_hours, tok, permVars, tenantVars, ctxVars, assignVars, fxVars>>

Authenticate(username, password) ==
    /\ LET r == authenticate_session(users, username, password, SecretKey,
                                     token_expiry_hours, now, tz)
       IN  /\ users' = r.store
           /\ last' = Call("authenticate", username, password, r.out)
           /\ tok' = IF IsOk(r.out) THEN Val(r.out) ELSE tok
    /\ UNCHANGED <<now, ticks, tz, token_expiry_hours, permVars, tenantVars, ctxVars, assignVars, fxVars>>

GenerateToken(uid, username) ==
    /\ LET t == _generate_token(UUIDStr(uid), username, SecretKey,
                                token_expiry_hours, now, tz)
       IN  last' = Call("_generate_token", UUIDStr(uid), username, Ok(t))
    /\ UNCHANGED <<authVars, permVars, tenantVars, ctxVars, assignVars, fxVars>>

\* token strings a client can present, derived from the one it holds
TokenInputs ==
    {CorruptToken} \cup
    IF tok.kind # "jws" THEN {}
    ELSE { tok,
           [tok EXCEPT !.payload.username = "mallory"],
           [tok EXCEPT !.alg = "none"],
           jwt_encode(tok.payload, OtherKey) }

VerifyToken(token, build) ==
    /\ last' = Call("verify_token", token, build,
                    verify_token(token, SecretKey, now, build))
    /\ UNCHANGED <<authVars, permVars, tenantVars, ctxVars, assignVars, fxVars>>

VerifyPassword(password, password_hash) ==
    /\ last' = Call("_verify_password", password, password_hash,
                    _verify_password(password, password_hash))
    /\ UNCHANGED <<authVars, permVars, tenantVars, ctxVars, assignVars, fxVars>>

Tick ==
    /\ ticks < MaxTicks
    /\ ticks' = ticks + 1
    /\ now' = now + TickSeconds
    /\ last' = Call("tick", "", "", Ok(None))
    /\ UNCHANGED <<users, tz, token_expiry_hours, tok, permVars, tenantVars, ctxVars, assignVars, fxVars>>

HasPermission(user_id, code) ==
    /\ last' = Call("has_permission", user_id, code,
                    has_permission(secUsers, permissions, rolePerms, user_id, code))
    /\ UNCHANGED <<authVars, permVars, tenantVars, ctxVars, assignVars, fxVars>>

AssertPermission(user_id, code) ==
    /\ last' = Call("assert_permission", user_id, code,
                    assert_permission(secUsers, permissions, rolePerms, user_id, code))
    /\ UNCHANGED <<authVars, permVars, tenantVars, ctxVars, assignVars, fxVars>>

\* a write of SecurityUser.role_id (role assignment or removal)
SetRole(uid, role) ==
    /\ uid \in DOMAIN secUsers
    /\ secUsers[uid] # role
    /\ secUsers' = [secUsers EXCEPT ![uid] = role]
    /\ last' = Call("set_role", UUIDStr(uid), "", Ok(None))
    /\ UNCHANGED <<authVars, permissions, rolePerms, roles, tenantVars, ctxVars, assignVars, fxVars>>

\* an insert into RolePermission; the table has no unique constraint on
\* (role_id, permission_id)
AddLink(role, perm) ==
    /\ role \in DOMAIN roles              \* foreign key securityrole.id
    /\ perm \in DOMAIN permissions        \* foreign key securitypermission.id
    /\ LinkRows(rolePerms) < MaxLinkRows
    /\ rolePerms' = [rolePerms EXCEPT ![<<role, perm>>] = @ + 1]
    /\ last' = Call("add_link", "", "", Ok(None))
    /\ UNCHANGED <<authVars, secUsers, permissions, roles, tenantVars, ctxVars, assignVars, fxVars>>

\* a delete of one RolePermission row
RemoveLink(role, perm) ==
    /\ rolePerms[<<role, perm>>] > 0
    /\ rolePerms' = [rolePerms EXCEPT ![<<role, perm>>] = @ - 1]
    /\ last' = Call("remove_link", "", "", Ok(None))
    /\ UNCHANGED <<authVars, secUsers, permissions, roles, tenantVars, ctxVars, assignVars, fxVars>>

\* a long idle period of the clock
Sleep ==
    /\ ticks < MaxTicks
    /\ ticks' = ticks + 1
    /\ now' = now + SleepSeconds
    /\ last' = Call("sleep", "", "", Ok(None))
    /\ UNCHANGED <<users, tz, token_expiry_hours, tok, permVars, tenantVars, ctxVars, assignVars, fxVars>>

\* token lifetime under the default and a short configuration
InitToken ==
    /\ users = {[id |-> 1, username |-> "alice", hashed_password |-> BcryptHash("pw-one"),
       full_name |-> NoFullName, last_login |-> NoLogin]}
    /\ now = StartNow
    /\ ticks = 0
    /\ tz \in TzOffsets
    /\ token_expiry_hours \in {1, DefaultExpiryHours}
    /\ tok = NoToken
    /\ secUsers = [u \in {} |-> None]
    /\ permissions = [p \in {} |-> ""]
    /\ rolePerms = NoLinks
    /\ roles = NoRoles
    /\ tenants = {}
    /\ Quiescent
    /\ last = NoCall

NextToken ==
    \/ \E n \in Usernames, p \in Passwords : Authenticate(n, p)
    \/ \E u \in UserIds, n \in Usernames : GenerateToken(u, n)
    \/ \E t \in TokenInputs, b \in JwtBuilds : VerifyToken(t, b)
    \/ Tick
    \/ Sleep

\* a call of one of the read operations of the role interface
RoleCall(op, arg, out) ==
    /\ last' = Call(op, arg, "", out)
    /\ UNCHANGED <<authVars, permVars, tenantVars, ctxVars, assignVars, fxVars>>

ProviderGetById(rid) == RoleCall("get_by_id", UUIDStr(rid), get_by_id(roles, rid))
ProviderGetByName(name) == RoleCall("get_by_name", name, get_by_name(roles, name))
ProviderListAll == RoleCall("list_all", "", Ok(list_all(roles)))
GetRoleById(role_id) == RoleCall("get_role_by_id", role_id, get_role_by_id(roles, role_id))
GetRoleByName(name) == RoleCall("get_role_by_name", name, get_role_by_name(roles, name))
ListRoles(permission_filter) ==
    RoleCall("list_roles", permission_filter, list_roles(roles, permission_filter))

ResolvePermissions(rid) ==
    /\ LET r == resolve_permissions(roles, rid)
       IN  /\ roles' = r.store
           /\ last' = Call("resolve_permissions", UUIDStr(rid), "", r.out)
    /\ UNCHANGED <<authVars, secUsers, permissions, rolePerms, tenantVars, ctxVars, assignVars, fxVars>>

RoleOps ==
    {"get_by_id", "get_by_name", "list_all", "resolve_permissions",
     "get_role_by_id", "get_role_by_name", "list_roles"}

NextAuth ==
    \/ \E n \in Usernames, p \in Passwords : CreateUser(n, p)
    \/ \E i \in IdStrings : DeleteUser(i)
    \/ \E n \in UsernameInputs, p \in Passwords : Authenticate(n, p)
    \/ \E u \in UserIds, n \in Usernames : GenerateToken(u, n)
    \/ \E t \in TokenInputs, b \in JwtBuilds : VerifyToken(t, b)
    \/ \E p \in Passwords, h \in StoredHashes : VerifyPassword(p, h)
    \/ Tick

NextPerm ==
    \/ \E i \in IdStrings, c \in PermCodes : HasPermission(i, c)
    \/ \E i \in IdStrings, c \in PermCodes : AssertPermission(i, c)
    \/ \E u \in UserIds, r \in {None} \cup RoleIds : SetRole(u, r)
    \/ \E r \in RoleIds, p \in PermIds : AddLink(r, p)
    \/ \E r \in RoleIds, p \in PermIds : RemoveLink(r, p)
    \/ \E r \in RoleIds : ProviderGetById(r)
    \/ \E n \in RoleNames : ProviderGetByName(n)
    \/ ProviderListAll
    \/ \E r \in RoleIds : ResolvePermissions(r)
    \/ \E i \in RoleIdStrings : GetRoleById(i)
    \/ \E n \in RoleNames : GetRoleByName(n)
    \/ \E f \in PermCodes \cup {""} : ListRoles(f)

SpecAuth == InitAuth /\ [][NextAuth]_vars
SpecPerm == InitPerm /\ [][NextPerm]_vars
SpecToken == InitToken /\ [][NextToken]_vars

\* user management on its own
GetUserById(user_id) ==
    /\ last' = Call("get_user_by_id", user_id, "", adapter_get_user_by_id(users, user_id))
    /\ UNCHANGED <<authVars, permVars, tenantVars, ctxVars, assignVars, fxVars>>

GetUserByUsername(username) ==
    /\ last' = Call("get_user_by_username", username, "",
                    adapter_get_user_by_username(users, username))
    /\ UNCHANGED <<authVars, permVars, tenantVars, ctxVars, assignVars, fxVars>>

UpdateUser(user_id, update_data) ==
    /\ LET w == update_user(users, user_id, update_data)
       IN  /\ users' = w.store
           /\ last' = Call("update_user", user_id, update_data, w.out)
    /\ UNCHANGED <<now, ticks, tz, token_expiry_hours, tok, permVars, tenantVars, ctxVars, assignVars, fxVars>>

NextUser ==
    \/ \E n \in Usernames, p \in Passwords : CreateUser(n, p)
    \/ \E i \in UserIdStrings : DeleteUser(i)
    \/ \E i \in UserIdStrings : GetUserById(i)
    \/ \E n \in Usernames : GetUserByUsername(n)
    \/ \E i \in UserIdStrings, d \in UserUpdates : UpdateUser(i, d)

SpecUser == InitAuth /\ [][NextUser]_vars

\* tenant administration on its own
SeedTenants ==
    { {}, {[id |-> 1, code |-> "ACME", name |-> "Acme Ltd", updated_at |-> StartNow]} }

\* uuid4() gives an id no row carries; when every id of the bounded range is
\* taken only calls that are refused before the insert remain
CreateTenant(code, name) ==
    /\ \E newId \in TenantIds :
          /\ \/ newId \notin {r.id : r \in tenants}
             \/ check_code_exists(tenants, code, None)
          /\ LET c == create_tenant(tenants, newId, [code |-> code, name |-> name], now)
             IN  /\ tenants' = c.store
                 /\ last' = Call("create_tenant", code, name, c.out)
    /\ UNCHANGED <<authVars, permVars, pending, ctxVars, assignVars, fxVars>>

UpdateTenant(tenant_id, update_data) ==
    /\ LET w == update_tenant(tenants, tenant_id, update_data, now)
       IN  /\ tenants' = w.store
           /\ last' = Call("update_tenant", UUIDStr(tenant_id), update_data, w.out)
    /\ UNCHANGED <<authVars, permVars, pending, ctxVars, assignVars, fxVars>>

InitTenant ==
    /\ users = {}
    /\ now = StartNow
    /\ ticks = 0
    /\ tz = 0
    /\ token_expiry_hours = DefaultExpiryHours
    /\ tok = NoToken
    /\ secUsers = [u \in {} |-> None]
    /\ permissions = [p \in {} |-> ""]
    /\ rolePerms = NoLinks
    /\ roles = NoRoles
    /\ tenants \in SeedTenants
    /\ Quiescent
    /\ last = NoCall

NextTenant ==
    \/ \E c \in TenantCodes, n \in TenantNames : CreateTenant(c, n)
    \/ \E i \in TenantIds, d \in TenantUpdates : UpdateTenant(i, d)
    \/ Tick

SpecTenant == InitTenant /\ [][NextTenant]_vars

\* FX revaluation on its own
RevalueBalance(balance, old_rate, new_rate) ==
    /\ \E out \in adapter_revalue_balance(balance, old_rate, new_rate) :
          last' = Call("revalue_balance", balance, <<old_rate, new_rate>>, out)
    /\ UNCHANGED <<authVars, permVars, tenantVars, ctxVars, assignVars, fxVars>>

InitFx ==
    /\ users = {}
    /\ now = StartNow
    /\ ticks = 0
    /\ tz = 0
    /\ token_expiry_hours = DefaultExpiryHours
    /\ tok = NoToken
    /\ secUsers = [u \in {} |-> None]
    /\ permissions = [p \in {} |-> ""]
    /\ rolePerms = NoLinks
    /\ roles = NoRoles
    /\ tenants = {}
    /\ Quiescent
    /\ last = NoCall

NextFx == \E b \in FxBalances, o \in FxRates, n \in FxRates : RevalueBalance(b, o, n)

SpecFx == InitFx /\ [][NextFx]_vars

\* the ambient current tenant (TenantContext, TenantContextManager)
\* TenantContext.set_current_tenant, called outside any with-block
SetCurrentTenant(tenant_id) ==
    /\ blocks = <<>>
    /\ current_tenant_id' = tenant_id
    /\ last' = Call("set_current_tenant", UUIDStr(tenant_id), "", Ok(None))
    /\ UNCHANGED <<authVars, permVars, tenantVars, managers, blocks, assignVars, fxVars>>

\* TenantContext.clear_current_tenant, called outside any with-block
ClearCurrentTenant ==
    /\ blocks = <<>>
    /\ current_tenant_id' = None
    /\ last' = Call("clear_current_tenant", "", "", Ok(None))
    /\ UNCHANGED <<authVars, permVars, tenantVars, managers, blocks, assignVars, fxVars>>

\* TenantContextManager.__enter__ of manager m: a with-block opens; the
\* block remembers the value the current tenant had when it opened
Enter(m) ==
    /\ Len(blocks) < MaxDepth
    /\ managers' = [managers EXCEPT ![m].previous_tenant_id = current_tenant_id]
    /\ current_tenant_id' = managers[m].tenant_id
    /\ blocks' = Append(blocks, [manager |-> m, before |-> current_tenant_id])
    /\ last' = Call("__enter__", ToString(m), "", Ok(None))
    /\ UNCHANGED <<authVars, permVars, tenantVars, assignVars, fxVars>>

\* TenantContextManager.__exit__ of the innermost open block, reached by
\* falling off its end or by an exception (exc) leaving it
Exit(exc) ==
    /\ blocks # <<>>
    /\ LET m == blocks[Len(blocks)].manager
       IN  /\ current_tenant_id' =
                 IF managers[m].previous_tenant_id # None
                 THEN managers[m].previous_tenant_id      \* set_current_tenant
                 ELSE None                                \* clear_current_tenant
           /\ last' = Call("__exit__", ToString(m), exc, Ok(None))
    /\ blocks' = SubSeq(blocks, 1, Len(blocks) - 1)
    /\ UNCHANGED <<authVars, permVars, tenantVars, managers, assignVars, fxVars>>

InitCtx ==
    /\ users = {}
    /\ now = StartNow
    /\ ticks = 0
    /\ tz = 0
    /\ token_expiry_hours = DefaultExpiryHours
    /\ tok = NoToken
    /\ secUsers = [u \in {} |-> None]
    /\ permissions = [p \in {} |-> ""]
    /\ rolePerms = NoLinks
    /\ roles = NoRoles
    /\ tenants = {}
    /\ pending = [p \in Procs |-> Idle]
    /\ current_tenant_id = None
    /\ managers \in [ManagerIds -> [tenant_id : TenantIds, previous_tenant_id : {None}]]
    /\ blocks = <<>>
    /\ userRoles = [k \in UserIds \X RoleIds |-> 0]
    /\ assigning = [p \in Procs |-> Idle]
    /\ rates = {}
    /\ last = NoCall

NextCtx ==
    \/ \E t \in TenantIds : SetCurrentTenant(t)
    \/ ClearCurrentTenant
    \/ \E m \in ManagerIds : Enter(m)
    \/ \E exc \in BOOLEAN : Exit(exc)

SpecCtx == InitCtx /\ [][NextCtx]_vars

\* role assignment, one call at a time
AssignRole(user_id, role_id, referenced) ==
    /\ LET a == assign_role(userRoles, user_id, role_id, referenced)
       IN  /\ userRoles' = a.store
           /\ last' = Call("assign_role", user_id, role_id, a.out)
    /\ UNCHANGED <<authVars, permVars, tenantVars, ctxVars, assigning, fxVars>>

RemoveRole(user_id, role_id) ==
    /\ LET d == remove_role(userRoles, user_id, role_id)
       IN  /\ userRoles' = d.store
           /\ last' = Call("remove_role", user_id, role_id, d.out)
    /\ UNCHANGED <<authVars, permVars, tenantVars, ctxVars, assigning, fxVars>>

NextAssign ==
    \/ \E u \in UserIds, r \in RoleIds, f \in BOOLEAN : AssignRole(u, r, f)
    \/ \E u \in UserIds, r \in RoleIds : RemoveRole(u, r)

SpecAssign == InitFx /\ [][NextAssign]_vars

\* role assignment by several clients at once: the existence check and the
\* insert of one assign_role call are separate sessions, and calls of other
\* clients may run between them
AssignPairs == {<<1, 1>>, <<1, 2>>}

\* assign_role up to the end of its existence check
AssignCheck(p, user_id, role_id) ==
    /\ assigning[p] = Idle
    /\ IF exists(userRoles, user_id, role_id)
       THEN /\ last' = Call("assign_role", user_id, role_id, Ok(<<>>))
            /\ UNCHANGED assigning
       ELSE /\ assigning' = [assigning EXCEPT
                                ![p] = [op |-> "insert", user_id |-> user_id, role_id |-> role_id]]
            /\ last' = Call("exists", user_id, role_id, Ok(FALSE))
    /\ UNCHANGED <<authVars, permVars, tenantVars, ctxVars, userRoles, fxVars>>

\* the rest of assign_role: the insert
AssignInsert(p, referenced) ==
    /\ assigning[p] # Idle
    /\ LET c == create(userRoles, assigning[p].user_id, assigning[p].role_id, referenced)
       IN  /\ userRoles' = c.store
           /\ last' = Call("assign_role", assigning[p].user_id, assigning[p].role_id, c.out)
    /\ assigning' = [assigning EXCEPT ![p] = Idle]
    /\ UNCHANGED <<authVars, permVars, tenantVars, ctxVars, fxVars>>

NextAssignConcurrent ==
    \/ \E p \in Procs, k \in AssignPairs : AssignCheck(p, k[1], k[2])
    \/ \E p \in Procs, f \in BOOLEAN : AssignInsert(p, f)
    \/ \E k \in AssignPairs : RemoveRole(k[1], k[2])

SpecAssignConcurrent == InitFx /\ [][NextAssignConcurrent]_vars

\* exchange rates
\* an insert into the ExchangeRate table (a new rate is published)
AddRate(row) ==
    /\ Cardinality(rates) < MaxRateRows
    /\ row \notin rates
    /\ rates' = rates \cup {row}
    /\ last' = Call("add_rate", "", "", Ok(None))
    /\ UNCHANGED <<authVars, permVars, tenantVars, ctxVars, assignVars>>

GetRate(from_currency, to_currency) ==
    /\ \E out \in adapter_get_rate(rates, from_currency, to_currency) :
          last' = Call("get_rate", from_currency, to_currency, out)
    /\ UNCHANGED <<authVars, permVars, tenantVars, ctxVars, assignVars, fxVars>>

Convert(amount, from_currency, to_currency) ==
    /\ \E out \in convert(rates, amount, from_currency, to_currency) :
          last' = Call("convert", <<from_currency, to_currency>>, amount, out)
    /\ UNCHANGED <<authVars, permVars, tenantVars, ctxVars, assignVars, fxVars>>

NextRates ==
    \/ \E row \in RateRows : AddRate(row)
    \/ \E b \in CurrencyArgs, q \in CurrencyArgs : GetRate(b, q)
    \/ \E a \in Amounts, b \in CurrencyArgs, q \in CurrencyArgs : Convert(a, b, q)

SpecRates == InitFx /\ [][NextRates]_vars

\* registration, login and removal of identities
NextLifecycle ==
    \/ \E n \in Usernames, p \in Passwords : CreateUser(n, p)
    \/ \E i \in UserIdStrings : DeleteUser(i)
    \/ \E i \in UserIdStrings, d \in UserUpdates : UpdateUser(i, d)
    \/ \E n \in Usernames, p \in Passwords : Authenticate(n, p)

SpecLifecycle == InitToken /\ [][NextLifecycle]_vars

\* tenant administration by several clients at once: between the checks of
\* a call and its write the calls of other clients may run
ConcurrentName == "Acme Ltd"
ConcurrentUpdates == [code : TenantCodes, name : {Unset}]

\* create_tenant up to the end of check_code_exists
CreateTenantCheck(p, code) ==
    /\ pending[p] = Idle
    /\ IF check_code_exists(tenants, code, None)
       THEN /\ last' = Call("create_tenant", code, ConcurrentName,
                            ValidationError(<<"Tenant with code '", code, "' already exists">>))
            /\ UNCHANGED pending
       ELSE /\ pending' = [pending EXCEPT
                              ![p] = [op |-> "create",
                                      data |-> [code |-> code, name |-> ConcurrentName]]]
            /\ last' = Call("check_code_exists", code, "", Ok(FALSE))
    /\ UNCHANGED <<authVars, permVars, tenants, ctxVars, assignVars, fxVars>>

\* the rest of create_tenant: provider.create_tenant and the TenantRead
CreateTenantWrite(p) ==
    /\ pending[p] # Idle
    /\ pending[p].op = "create"
    /\ \E newId \in TenantIds \ {r.id : r \in tenants} :
          LET c == provider_create_tenant(tenants, newId, pending[p].data, now)
          IN  /\ tenants' = c.store
              /\ last' = Call("create_tenant", pending[p].data.code, pending[p].data.name,
                              IF IsOk(c.out) THEN Ok(TenantRead(Val(c.out))) ELSE c.out)
    /\ pending' = [pending EXCEPT ![p] = Idle]
    /\ UNCHANGED <<authVars, permVars, ctxVars, assignVars, fxVars>>

\* update_tenant up to the end of check_code_exists
UpdateTenantCheck(p, tenant_id, update_data) ==
    /\ pending[p] = Idle
    /\ LET tenant == get_tenant_by_id(tenants, tenant_id)
           update_dict == exclude_unset(update_data)
       IN  IF tenant = <<>>
           THEN /\ last' = Call("update_tenant", UUIDStr(tenant_id), update_data, Ok(<<>>))
                /\ UNCHANGED pending
           ELSE IF /\ "code" \in DOMAIN update_dict
                   /\ check_code_exists(tenants, update_dict.code, tenant_id)
           THEN /\ last' = Call("update_tenant", UUIDStr(tenant_id), update_data,
                                ValidationError(<<"Tenant with code '", update_dict.code,
                                                  "' already exists">>))
                /\ UNCHANGED pending
           ELSE /\ pending' = [pending EXCEPT
                                  ![p] = [op |-> "update", tenant_id |-> tenant_id,
                                          data |-> update_data]]
                /\ last' = Call("check_code_exists", update_dict.code, UUIDStr(tenant_id),
                                Ok(FALSE))
    /\ UNCHANGED <<authVars, permVars, tenants, ctxVars, assignVars, fxVars>>

\* the rest of update_tenant: the timestamp, provider.update_tenant (an
\* UPDATE of the columns that were set on the row with that id) and the
\* TenantRead
UpdateTenantWrite(p) ==
    /\ pending[p] # Idle
    /\ pending[p].op = "update"
    /\ LET update_dict == exclude_unset(pending[p].data)
           stamped == [f \in DOMAIN update_dict \cup {"updated_at"} |->
                          IF f = "updated_at" THEN now ELSE update_dict[f]]
           w == provider_update_tenant(tenants,
                                       get_tenant_by_id(tenants, pending[p].tenant_id)[1],
                                       stamped)
       IN  /\ tenants' = w.store
           /\ last' = Call("update_tenant", UUIDStr(pending[p].tenant_id), pending[p].data,
                           IF IsOk(w.out) THEN Ok(<<TenantRead(Val(w.out))>>) ELSE w.out)
    /\ pending' = [pending EXCEPT ![p] = Idle]
    /\ UNCHANGED <<authVars, permVars, ctxVars, assignVars, fxVars>>

NextTenantConcurrent ==
    \/ \E p \in Procs, c \in TenantCodes : CreateTenantCheck(p, c)
    \/ \E p \in Procs : CreateTenantWrite(p)
    \/ \E p \in Procs, i \in TenantIds, d \in ConcurrentUpdates : UpdateTenantCheck(p, i, d)
    \/ \E p \in Procs : UpdateTenantWrite(p)

SpecTenantConcurrent == InitTenant /\ [][NextTenantConcurrent]_vars

(***************************************************************************)
(* The same calls over a session whose statements may fail.                *)
(***************************************************************************)
NoFault == 0
\* failAt names the statement of the call at which the database fails:
\* none, or the first, second or third session.exec of the call
FaultPoints == 0 .. 3
OperationalError == Raise("OperationalError", <<"server closed the connection unexpectedly">>)

\* session.exec(stmt) as the k-th statement of a call
session_exec(failAt, k, result) ==
    IF failAt = k THEN OperationalError ELSE Ok(result)

user_has_permission_exec_Swallow(SU, P, RP, uid, code, failAt) ==
    LET role_id == session_exec(failAt, 1, IF uid \in DOMAIN SU THEN SU[uid] ELSE None)
    IN  IF ~IsOk(role_id) THEN role_id
        ELSE IF Val(role_id) = None THEN Ok(FALSE)
        ELSE LET found == session_exec(failAt, 2, get_permission_by_code(P, code))
                 perm == IF IsOk(found) THEN Val(found) ELSE found
             IN  IF ~IsOk(perm) THEN Ok(FALSE)
                 ELSE LET link == session_exec(failAt, 3, RP[<<Val(role_id), Val(perm)>>] > 0)
                      IN  link

\* SecurityPermissionProvider.user_has_permission, statement by statement
user_has_permission_exec(SU, P, RP, uid, code, failAt) ==
    LET role_id == session_exec(failAt, 1, IF uid \in DOMAIN SU THEN SU[uid] ELSE None)
    IN  IF ~IsOk(role_id) THEN role_id
        ELSE IF Val(role_id) = None THEN Ok(FALSE)
        ELSE LET found == session_exec(failAt, 2, get_permission_by_code(P, code))
                 perm == IF IsOk(found) THEN Val(found) ELSE found
             IN  IF perm.kind = "NotFoundError" THEN Ok(FALSE)   \* except NotFoundError
                 ELSE IF ~IsOk(perm) THEN perm
                 ELSE LET link == session_exec(failAt, 3, RP[<<Val(role_id), Val(perm)>>] > 0)
                      IN  link

\* PermissionAdapter.has_permission
has_permission_exec(SU, P, RP, user_id, permission, failAt) ==
    LET uid == UUIDParse(user_id)
    IN  IF ~IsOk(uid) THEN uid
        ELSE user_has_permission_exec(SU, P, RP, Val(uid), permission, failAt)

\* PermissionAdapter.assert_permission
assert_permission_exec(SU, P, RP, user_id, permission, failAt) ==
    LET h == has_permission_exec(SU, P, RP, user_id, permission, failAt)
    IN  IF ~IsOk(h) THEN h
        ELSE IF ~Val(h)
        THEN AuthorizationError(<<"User '", user_id, "' lacks required permission '",
                                  permission, "'">>)
        ELSE Ok(None)

\* AuthenticationAdapter.authenticate: its one statement is the lookup by
\* username, issued before anything else
authenticate_exec(S, username, password, key, expiryHours, t, offsetHours, failAt) ==
    LET u == session_exec(failAt, 1, get_user_by_username(S, username))
    IN  IF ~IsOk(u) THEN u
        ELSE authenticate(S, username, password, key, expiryHours, t, offsetHours)

FaultCall(op, a1, a2, failAt, out) ==
    [op |-> op, a1 |-> a1, a2 |-> a2, out |-> out, fault |-> failAt]

AuthenticateExec(username, password, failAt) ==
    /\ LET r == authenticate_exec(users, username, password, SecretKey,
                                  token_expiry_hours, now, tz, failAt)
       IN  /\ last' = FaultCall("authenticate", username, password, failAt, r)
           /\ tok' = IF IsOk(r) THEN Val(r) ELSE tok
    /\ UNCHANGED <<users, now, ticks, tz, token_expiry_hours, permVars, tenantVars, ctxVars, assignVars, fxVars>>

HasPermissionExec(user_id, code, failAt) ==
    /\ last' = FaultCall("has_permission", user_id, code, failAt,
                         has_permission_exec(secUsers, permissions, rolePerms,
                                             user_id, code, failAt))
    /\ UNCHANGED <<authVars, permVars, tenantVars, ctxVars, assignVars, fxVars>>

AssertPermissionExec(user_id, code, failAt) ==
    /\ last' = FaultCall("assert_permission", user_id, code, failAt,
                         assert_permission_exec(secUsers, permissions, rolePerms,
                                                user_id, code, failAt))
    /\ UNCHANGED <<authVars, permVars, tenantVars, ctxVars, assignVars, fxVars>>

InitFault ==
    /\ users = {[id |-> 1, username |-> "alice", hashed_password |-> BcryptHash("pw-one"),
       full_name |-> NoFullName, last_login |-> NoLogin]}
    /\ now = StartNow
    /\ ticks = 0
    /\ tz = 0
    /\ token_expiry_hours = DefaultExpiryHours
    /\ tok = NoToken
    /\ secUsers \in {U \in SeedSecUsers : DOMAIN U = {1}}
    /\ permissions \in {P \in SeedPermissions : DOMAIN P = {1, 2}}
    /\ rolePerms = NoLinks
    /\ roles \in {R \in SeedRoles : DOMAIN R = {1, 2}}
    /\ tenants = {}
    /\ Quiescent
    /\ last = NoCall

NextFault ==
    \/ \E n \in Usernames, p \in Passwords, f \in FaultPoints : AuthenticateExec(n, p, f)
    \/ \E i \in IdStrings, c \in PermCodes, f \in FaultPoints : HasPermissionExec(i, c, f)
    \/ \E i \in IdStrings, c \in PermCodes, f \in FaultPoints : AssertPermissionExec(i, c, f)
    \/ \E u \in UserIds, r \in {None} \cup RoleIds : SetRole(u, r)
    \/ \E r \in RoleIds, p \in PermIds : AddLink(r, p)
    \/ \E r \in RoleIds, p \in PermIds : RemoveLink(r, p)

SpecFault == InitFault /\ [][NextFault]_vars

\* the authentication and authorization checks side by side, over stores
\* that are being administered meanwhile
NextChecks ==
    \/ \E n \in UsernameInputs, p \in Passwords : Authenticate(n, p)
    \/ \E t \in TokenInputs, b \in JwtBuilds : VerifyToken(t, b)
    \/ \E i \in IdStrings, c \in PermCodes : HasPermission(i, c)
    \/ \E i \in IdStrings, c \in PermCodes : AssertPermission(i, c)
    \/ \E u \in UserIds, r \in {None} \cup RoleIds : SetRole(u, r)
    \/ \E r \in RoleIds, p \in PermIds : AddLink(r, p)

SpecChecks == InitFault /\ [][NextChecks]_vars

(***************************************************************************)
(* Properties.                                                             *)
(***************************************************************************)
Range(f) == {f[i] : i \in DOMAIN f}
UserExists(n) == \E r \in users : r.username = n
WellFormedHash(h) == \E p \in Passwords : h = BcryptHash(p)
\* the stored hash of n is the bcrypt hash of p
PasswordMatches(n, p) ==
    \E r \in users : r.username = n /\ r.hashed_password = BcryptHash(p)
InvalidCredentials == AuthenticationError(<<"Invalid username or password">>)
CodeKnown(c) == \E p \in DOMAIN permissions : permissions[p] = c
WellFormedId(s) == IsOk(UUIDParse(s))
RoleOf(s) ==
    LET uid == Val(UUIDParse(s))
    IN  IF uid \in DOMAIN secUsers THEN secUsers[uid] ELSE None
\* a RolePermission row links the role of identity s to the permission coded c
Granted(s, c) ==
    /\ RoleOf(s) # None
    /\ \E p \in DOMAIN permissions :
          permissions[p] = c /\ rolePerms[<<RoleOf(s), p>>] > 0

\* C1: authenticate with an existing username and a wrong password, and
\* authenticate with a username that is not in the store, both fail with
\* AuthenticationError('Invalid username or password'); a lookup miss is
\* never seen by the caller as NotFoundError.
C1_UniformAuthFailure ==
    (last.op = "authenticate" /\ ~PasswordMatches(last.a1, last.a2))
        => last.out = InvalidCredentials

\* C2: for every identity without an assigned role and every permission
\* code, known or not, has_permission returns False.
C2_NoRoleDenied ==
    (last.op = "has_permission" /\ WellFormedId(last.a1) /\ RoleOf(last.a1) = None)
        => last.out = Ok(FALSE)

C2_Witness ==
    /\ last.op = "has_permission"
    /\ WellFormedId(last.a1)
    /\ Val(UUIDParse(last.a1)) \in DOMAIN secUsers
    /\ RoleOf(last.a1) = None
    /\ \E p \in DOMAIN permissions, r \in RoleIds :
          permissions[p] = last.a2 /\ rolePerms[<<r, p>>] > 0
    /\ last.out = Ok(FALSE)

\* C3: for every permission code that is not in the permission store and
\* every identity, with or without a role, has_permission returns False and
\* raises nothing (in particular not NotFoundError).
C3_UnknownCodeDenied ==
    (last.op = "has_permission" /\ WellFormedId(last.a1) /\ ~CodeKnown(last.a2))
        => last.out = Ok(FALSE)

C3_Witness ==
    /\ last.op = "has_permission"
    /\ WellFormedId(last.a1)
    /\ RoleOf(last.a1) # None
    /\ ~CodeKnown(last.a2)
    /\ \E p \in DOMAIN permissions : rolePerms[<<RoleOf(last.a1), p>>] > 0
    /\ last.out = Ok(FALSE)

\* C4: has_permission(u, c) returns True exactly when u has an assigned role,
\* c is the code of a stored permission and a RolePermission row links that
\* role to that permission, as the stores stand at the time of the call.
C4_ExactGrant ==
    (last.op = "has_permission" /\ WellFormedId(last.a1))
        => last.out = Ok(Granted(last.a1, last.a2))

C4_Witness ==
    /\ last.op = "has_permission"
    /\ WellFormedId(last.a1)
    /\ Granted(last.a1, last.a2)
    /\ \E p \in DOMAIN permissions, r \in RoleIds :
          r # RoleOf(last.a1) /\ permissions[p] # last.a2 /\ rolePerms[<<r, p>>] > 0
    /\ last.out = Ok(TRUE)

\* C5: assert_permission(u, c) raises AuthorizationError exactly when
\* has_permission(u, c) is False and returns normally exactly when it is
\* True; the error names the identity id and the permission code; for an
\* identity without a role it raises AuthorizationError for every code.
C5_AssertMatchesHas ==
    last.op = "assert_permission" =>
        LET h == has_permission(secUsers, permissions, rolePerms, last.a1, last.a2)
        IN  /\ IsOk(last.out) <=> (IsOk(h) /\ Val(h))
            /\ last.out.kind = "AuthorizationError" <=> (IsOk(h) /\ ~Val(h))
            /\ last.out.kind = "AuthorizationError" =>
                  {last.a1, last.a2} \subseteq Range(last.out.msg)
            /\ (WellFormedId(last.a1) /\ RoleOf(last.a1) = None) =>
                  last.out.kind = "AuthorizationError"

C5_Witness ==
    /\ last.op = "assert_permission"
    /\ WellFormedId(last.a1)
    /\ RoleOf(last.a1) = None
    /\ CodeKnown(last.a2)
    /\ last.out.kind = "AuthorizationError"
    /\ last.a1 \in Range(last.out.msg)

\* the claims verify_token returns for token at the present time
VerifiedNow(token, build) == verify_token(token, SecretKey, now, build)

\* C6: verify_token applied, immediately after issuance and with the same
\* secret, to the token produced by _generate_token(id, username) succeeds
\* and returns claims whose user_id and username equal the inputs.
C6_RoundTrip ==
    last.op = "_generate_token" =>
        \A b \in JwtBuilds :
            LET r == VerifiedNow(Val(last.out), b)
            IN  /\ IsOk(r)
                /\ Val(r).user_id = last.a1
                /\ Val(r).username = last.a2

\* C7: a token whose exp is earlier than the current time is rejected by
\* verify_token with AuthenticationError, even when its signature is valid;
\* no claims are returned for it.
C7_ExpiredRejected ==
    (/\ last.op = "verify_token"
     /\ last.a1.kind = "jws"
     /\ last.a1.payload.exp < now)
        => last.out.kind = "AuthenticationError"

C7_Witness ==
    /\ last.op = "verify_token"
    /\ last.a1.kind = "jws"
    /\ last.a1.alg = "HS256"
    /\ last.a1.sig = HS256(SecretKey, last.a1.payload)
    /\ last.a1.payload.iat <= now
    /\ last.a1.payload.exp < now
    /\ last.out = AuthenticationError(<<"Token has expired">>)

\* C8: authenticate returns a token only if the store holds an identity with
\* that username whose stored hash the password verifies against; when both
\* hold it returns a token whose verified claims carry that identity's id
\* and username.
C8_AuthenticateSound ==
    last.op = "authenticate" =>
        /\ IsOk(last.out) <=> PasswordMatches(last.a1, last.a2)
        /\ IsOk(last.out) =>
              \A b \in JwtBuilds :
                  LET r == VerifiedNow(Val(last.out), b)
                  IN  /\ IsOk(r)
                      /\ \E u \in users :
                            /\ u.username = last.a1
                            /\ Val(r).user_id = UUIDStr(u.id)
                            /\ Val(r).username = u.username

\* C9: _verify_password returns False and never raises for a malformed
\* stored hash or an internal failure of the check; authenticate against an
\* identity with a corrupt stored hash fails with the same
\* AuthenticationError as a wrong password.
C9_MalformedHashFails ==
    /\ last.op = "_verify_password" =>
          /\ IsOk(last.out)
          /\ ~WellFormedHash(last.a2) => last.out = Ok(FALSE)
    /\ (/\ last.op = "authenticate"
        /\ \E r \in users : r.username = last.a1 /\ ~WellFormedHash(r.hashed_password))
          => last.out = InvalidCredentials

C9_Witness ==
    /\ last.op = "authenticate"
    /\ \E r \in users : r.username = last.a1 /\ r.hashed_password = CorruptHash
    /\ last.out = InvalidCredentials

\* C10: for every token string verify_token returns the claims or raises
\* AuthenticationError; a signature mismatch (also a token signed with
\* another secret), a structurally corrupt token and an expired token all
\* raise AuthenticationError, and no other exception type escapes.
C10_OnlyAuthenticationError ==
    last.op = "verify_token" =>
        /\ last.out.kind \in {"ok", "AuthenticationError"}
        /\ last.a1.kind # "jws" => last.out.kind = "AuthenticationError"
        /\ (last.a1.kind = "jws" /\ last.a1.sig # HS256(SecretKey, last.a1.payload))
              => last.out.kind = "AuthenticationError"
        /\ (last.a1.kind = "jws" /\ last.a1.payload.exp < now)
              => last.out.kind = "AuthenticationError"

C10_Witness ==
    /\ last.op = "verify_token"
    /\ last.a1.kind = "jws"
    /\ last.a1.sig = HS256(OtherKey, last.a1.payload)
    /\ last.a1.payload.exp > now
    /\ last.out.kind = "AuthenticationError"

\* the token is signed by the adapter's key and its exp is earlier than t
ExpiredAt(token, t) ==
    /\ token.kind = "jws"
    /\ token.alg = "HS256"
    /\ token.sig = HS256(SecretKey, token.payload)
    /\ token.payload.iat <= t
    /\ token.payload.exp < t
\* the token is corrupt or its signature does not match the adapter's key
InvalidToken(token) ==
    \/ token.kind # "jws"
    \/ token.sig # HS256(SecretKey, token.payload)

\* C11: the error verify_token raises for an expired token and the error it
\* raises for an invalid (bad-signature or corrupt) token are the same in
\* type and message, so the caller cannot tell the failure mode.
C11_FailureModeHidden ==
    (last.op = "verify_token" /\ ExpiredAt(last.a1, now)) =>
        \A t \in TokenInputs :
            InvalidToken(t) => verify_token(t, SecretKey, now, last.a2) = last.out

\* C12: once a token has been issued, verify_token with the same secret
\* accepts it at every time before its embedded expiry, whatever credential
\* store operations happen in between.
C12_NotRevocable ==
    (/\ last.op = "verify_token"
     /\ tok.kind = "jws"
     /\ last.a1 = tok
     /\ now < tok.payload.exp)
        => IsOk(last.out)

GrantedCodes(u) ==
    {c \in PermCodes :
        has_permission(secUsers, permissions, rolePerms, UUIDStr(u), c) = Ok(TRUE)}

\* C14: for every identity u the set of codes for which has_permission is
\* true equals the permission codes its assigned role reports
\* (resolve_permissions, the list list_roles filters on), and is empty when
\* u has no role: the RolePermission rows and the role's own list agree.
C14_ViewsAgree ==
    \A u \in DOMAIN secUsers :
        IF secUsers[u] = None THEN GrantedCodes(u) = {}
        ELSE LET listed == resolve_permissions(roles, secUsers[u]).out
             IN  /\ IsOk(listed)
                 /\ GrantedCodes(u) = Range(Val(listed))
                 /\ \A c \in PermCodes :
                       c \in GrantedCodes(u) <=>
                           \E role \in FilteredRoles(roles, c) : role.id = secUsers[u]

\* C15: every operation of the role interface (get_by_id, get_by_name,
\* list_all, resolve_permissions, get_role_by_id, get_role_by_name,
\* list_roles) leaves the set of roles and each role's name, description and
\* permission list unchanged, whether it returns or raises.
C15_RolesImmutable == [][last'.op \in RoleOps => roles' = roles]_vars

C15_Witness ==
    /\ last.op = "resolve_permissions"
    /\ IsOk(last.out)
    /\ Val(last.out) # <<>>
    /\ roles \in SeedRoles

\* the identifier argument of the call is empty or malformed
MalformedInput ==
    \/ last.op \in {"has_permission", "assert_permission"} /\ ~WellFormedId(last.a1)
    \/ last.op = "authenticate" /\ last.a1 = ""

\* C16: has_permission / assert_permission called with an empty or malformed
\* identity id, and authenticate called with an empty username, fail with
\* ValidationError (raised before the store is read, so never the store's
\* NotFoundError).
C16_MalformedRejected == MalformedInput => last.out.kind = "ValidationError"

\* the number of statements the call recorded in last sends to the store
StatementsIssued ==
    IF last.op = "authenticate" THEN 1
    ELSE IF ~WellFormedId(last.a1) THEN 0
    ELSE IF RoleOf(last.a1) = None THEN 1
    ELSE IF ~CodeKnown(last.a2) THEN 2
    ELSE 3
\* the store failed while serving the call recorded in last
StoreFailed ==
    /\ last.op \in {"authenticate", "has_permission", "assert_permission"}
    /\ last.fault \in 1 .. StatementsIssued

\* C17: a store-level error raised during authenticate, has_permission or
\* assert_permission reaches the caller as that error: never as
\* AuthenticationError, AuthorizationError or NotFoundError, never as a
\* False/denied answer and never as a token.
C17_StoreErrorPropagates == StoreFailed => last.out = OperationalError

C17_Witness ==
    /\ last.op = "has_permission"
    /\ last.fault = 2
    /\ StatementsIssued >= 2
    /\ last.out = OperationalError

\* the call recorded in last' looked for an identity the store (before the
\* call) does not hold
LookupMissed ==
    \/ /\ last'.op \in {"get_user_by_id", "update_user", "delete_user"}
       /\ ~\E r \in users : UUIDStr(r.id) = last'.a1
    \/ /\ last'.op = "get_user_by_username"
       /\ ~\E r \in users : r.username = last'.a1

TenantCodesUnique == \A a, b \in tenants : a.code = b.code => a = b

\* what a create_tenant or update_tenant call may do about codes
TenantCodeStep ==
    /\ (last'.op = "create_tenant" /\ \E r \in tenants : r.code = last'.a1) =>
           /\ last'.out.kind = "ValidationError"
           /\ tenants' = tenants
    /\ (/\ last'.op = "update_tenant"
        /\ \E r \in tenants : UUIDStr(r.id) = last'.a1
        /\ last'.a2.code # Unset) =>
           IF \E r \in tenants : r.code = last'.a2.code /\ UUIDStr(r.id) # last'.a1
           THEN /\ last'.out.kind = "ValidationError"
                /\ tenants' = tenants
           ELSE /\ IsOk(last'.out)
                /\ \E r \in tenants' : UUIDStr(r.id) = last'.a1 /\ r.code = last'.a2.code

\* C19: under sequential create_tenant and update_tenant calls no two
\* tenants ever share a code; creating with a code in use, and changing a
\* tenant's code to one another tenant uses, raise ValidationError and leave
\* the tenant store unchanged; an update that keeps the tenant's own code is
\* accepted.
C19_TenantCodesUnique == []TenantCodesUnique /\ [][TenantCodeStep]_vars

C19_Witness ==
    /\ last.op = "update_tenant"
    /\ last.out.kind = "ValidationError"
    /\ Cardinality(tenants) = 2
    /\ TenantCodesUnique

CheckOps == {"authenticate", "verify_token", "has_permission", "assert_permission"}

\* C21: authenticate, verify_token, has_permission and assert_permission
\* leave the credential store (each identity's last_login included), the
\* role store, the permission store and the role-permission links
\* unchanged, whether they succeed or fail.
C21_ChecksReadOnly ==
    [][last'.op \in CheckOps =>
          UNCHANGED <<users, secUsers, permissions, rolePerms, roles>>]_vars

C21_Witness ==
    /\ last.op = "authenticate"
    /\ IsOk(last.out)
    /\ \E r \in users : r.username = last.a1 /\ r.last_login = NoLogin

\* the RolePermission table with every repeated row removed
WithoutDuplicates(RP) == [k \in DOMAIN RP |-> IF RP[k] > 0 THEN 1 ELSE 0]

\* C22: for every identity and permission code the result of has_permission
\* is the same whether a link (role_id, permission_id) is stored once or
\* several times, and duplicates never make it raise.
C22_DuplicateTolerant ==
    (last.op = "has_permission" /\ WellFormedId(last.a1)) =>
        /\ IsOk(last.out)
        /\ last.out = has_permission(secUsers, permissions, WithoutDuplicates(rolePerms),
                                     last.a1, last.a2)

C22_Witness ==
    /\ last.op = "has_permission"
    /\ WellFormedId(last.a1)
    /\ RoleOf(last.a1) # None
    /\ \E p \in DOMAIN permissions :
          permissions[p] = last.a2 /\ rolePerms[<<RoleOf(last.a1), p>>] >= 2
    /\ last.out = Ok(TRUE)

\* C23: for any properly nested sequence of enters and exits of
\* TenantContextManager blocks (nesting and exit by exception included),
\* right after each exit the current tenant id equals the value it had right
\* before the matching enter, and inside a block it equals the tenant_id of
\* the block's manager.
C23_ContextRestored ==
    /\ [](blocks # <<>> =>
            current_tenant_id = managers[blocks[Len(blocks)].manager].tenant_id)
    /\ [][last'.op = "__exit__" =>
            current_tenant_id' = blocks[Len(blocks)].before]_vars

\* the tenant the update_tenant call recorded in last' names, as stored
\* before the call
UpdateTargets == {r \in tenants : UUIDStr(r.id) = last'.a1}

\* C24: update_tenant on a tenant id that does not exist returns None and
\* changes nothing; on an existing tenant it changes only the fields given in
\* the update plus updated_at, leaving every other field of that tenant and
\* every other tenant unchanged.
C24_UpdateFrame ==
    [][last'.op = "update_tenant" =>
          IF UpdateTargets = {}
          THEN last'.out = Ok(<<>>) /\ tenants' = tenants
          ELSE /\ tenants \ UpdateTargets = {r \in tenants' : UUIDStr(r.id) # last'.a1}
               /\ \A r \in UpdateTargets :
                     \E r2 \in tenants' :
                         /\ r2.id = r.id
                         /\ \A f \in {"code", "name"} :
                               last'.a2[f] = Unset => r2[f] = r[f]]_vars

C24_Witness ==
    /\ last.op = "update_tenant"
    /\ last.a2.code = Unset
    /\ last.a2.name # Unset
    /\ IsOk(last.out)
    /\ Len(Val(last.out)) = 1
    /\ Val(last.out)[1].name = last.a2.name
    /\ Cardinality(tenants) = 2

\* at most one UserRole row per (user_id, role_id) pair
UserRolesUnique == \A k \in DOMAIN userRoles : userRoles[k] <= 1

\* what assign_role on a linked pair and remove_role on an unlinked pair do
UserRoleStep ==
    /\ (last'.op = "assign_role" /\ userRoles[<<last'.a1, last'.a2>>] > 0) =>
           last'.out = Ok(<<>>) /\ userRoles' = userRoles
    /\ (last'.op = "remove_role" /\ userRoles[<<last'.a1, last'.a2>>] = 0) =>
           last'.out = Ok(FALSE) /\ userRoles' = userRoles

\* C25: after any sequence of sequential assign_role and remove_role calls
\* there is at most one UserRole row per (user_id, role_id) pair;
\* assign_role on a linked pair returns None and leaves the store unchanged,
\* remove_role on an unlinked pair returns False and leaves the store
\* unchanged.
C25_AssignNoDuplicates == []UserRolesUnique /\ [][UserRoleStep]_vars

C25_Witness ==
    /\ last.op = "assign_role"
    /\ last.out = Ok(<<>>)
    /\ userRoles[<<last.a1, last.a2>>] = 1

\* C26: when assign_role calls for the same (user_id, role_id) pair are
\* interleaved, each with its existence check and its insert in separate
\* sessions, at most one UserRole row for the pair exists afterwards.
C26_AssignNoDuplicatesConcurrent ==
    (\A p \in Procs : assigning[p] = Idle) => UserRolesUnique

\* spellings of one currency code
Spellings == {{"usd", "Usd", "USD"}, {"eur", "EUR"}}
SameCurrency(a, b) == \E c \in Spellings : a \in c /\ b \in c
\* the stored rows of the pair (base, quote), whatever the case of the two
PairRows(base, quote) ==
    {r \in rates : SameCurrency(r.base_currency, base) /\ SameCurrency(r.quote_currency, quote)}
\* those of them with the greatest valid_from
LatestRows(base, quote) ==
    {r \in PairRows(base, quote) :
        \A q \in PairRows(base, quote) : q.valid_from <= r.valid_from}

\* C27: get_rate(base, quote) returns the rate of the stored row of the pair
\* with the greatest valid_from, whatever the case of the two codes, and
\* raises NotFoundError when the pair has no row; convert(amount, base, quote)
\* returns amount * get_rate(base, quote) and raises NotFoundError in the
\* same case.
C27_LatestRate ==
    /\ last.op = "get_rate" =>
          IF PairRows(last.a1, last.a2) = {}
          THEN last.out.kind = "NotFoundError"
          ELSE \E r \in LatestRows(last.a1, last.a2) : last.out = Ok(r.rate)
    /\ last.op = "convert" =>
          IF PairRows(last.a1[1], last.a1[2]) = {}
          THEN last.out.kind = "NotFoundError"
          ELSE \E r \in LatestRows(last.a1[1], last.a1[2]) : last.out = Ok(last.a2 * r.rate)

C27_Witness ==
    /\ last.op = "get_rate"
    /\ last.a1 = "usd"
    /\ last.a2 = "Usd"
    /\ \E r, q \in PairRows(last.a1, last.a2) :
          /\ r.valid_from > q.valid_from
          /\ r.rate # q.rate
          /\ last.out = Ok(r.rate)

\* the store holds the identity create_user(n, p) wrote, as it wrote it
RegisteredWith(n, p) ==
    \E i \in UserIds : \E r \in create_user({}, i, n, p).store : r \in users

\* C28: after create_user has created an identity with username n and
\* password p, and until that identity is deleted or its password changed,
\* authenticate(n, p) returns a token.
C28_RegistrationEnablesLogin ==
    (last.op = "authenticate" /\ RegisteredWith(last.a1, last.a2)) => IsOk(last.out)

\* a successful delete_user leaves no identity with the username of the
\* identity it was given
DeleteRemoves ==
    (last'.op = "delete_user" /\ IsOk(last'.out)) =>
        \A r \in users :
            UUIDStr(r.id) = last'.a1 => ~\E q \in users' : q.username = r.username

\* C29: after delete_user has removed an identity, and until an identity
\* with the same username is created again, authenticate with that username
\* never returns a token, whatever the password: delete_user removes the
\* identity's row, and authenticate with a username no row carries does not
\* return a token.
C29_DeletedCannotLogin ==
    /\ [][DeleteRemoves]_vars
    /\ []((last.op = "authenticate" /\ ~UserExists(last.a1)) => ~IsOk(last.out))

C29_Witness ==
    /\ last.op = "authenticate"
    /\ last.a1 = "alice"
    /\ last.a2 = "pw-one"
    /\ ~UserExists("alice")
    /\ ~IsOk(last.out)

\* C30: when two create_tenant calls with the same code, or a create_tenant
\* and an update_tenant to that code, are interleaved between their
\* check_code_exists step and their write step, at most one of them ends
\* with a tenant stored under the code and the other fails with
\* ValidationError.
C30_TenantCodesUniqueConcurrent ==
    /\ TenantCodesUnique
    /\ (last.op \in {"create_tenant", "update_tenant"} /\ ~IsOk(last.out)) =>
           last.out.kind = "ValidationError"
====
